---- MODULE Spec2Model ----
(***************************************************************************)
(* BookFinder: the reading agenda kept by AgendaManager                    *)
(* (src/scripts/modules/recommendationUI.js, lines 919-1248) and the       *)
(* value it persists under the Store key "readingAgenda".                  *)
(*                                                                         *)
(* Time is counted in ticks of half a day; an ISO date string is modelled  *)
(* by the tick of its instant.  Item ids (`book_${Date.now()}_${random}`)  *)
(* are modelled by a counter: every generated id is fresh.                 *)
(* The discussion rooms kept by DiscussionManager (src/unnamed/part_001)   *)
(* and the value it persists under the Store key "bookDiscussions" are     *)
(* the second part of the state; the LocalStorageManager                   *)
(* (src/scripts/utils/localStorage.js) over the browser's storage and the  *)
(* RecommendationEngine are the third and the fourth.  Each specification  *)
(* below runs one of them and leaves the state of the others alone.        *)
(* Fields that the manager writes and never reads are left out: the       *)
(* catalogue fields it copies next to the title (authors, thumbnail,      *)
(* publishedDate), the stamps dateAdded, startDate, lastRead and          *)
(* agenda.lastUpdated, the review text and a goal's description.          *)
(***************************************************************************)
EXTENDS Integers, Sequences, FiniteSets, TLC

\* ---------------------------------------------------------------- bounds
MaxItems    == 2    \* ids generated by addToReadingList
MaxSessions == 2    \* reading sessions recorded in the whole agenda
MaxGoals    == 1    \* goals created by setReadingGoal
MaxNow      == 1    \* ticks the clock advances after construction

\* ------------------------------------------------------------- calendar
DayTicks   == 2     \* one day = 24*60*60*1000 ms = two ticks
MonthDays  == 31    \* days in a (model) month
YearMonths == 12    \* months in a year; December is month index 11

MonthTicks == MonthDays * DayTicks
YearTicks  == YearMonths * MonthTicks
WeekTicks  == 7 * DayTicks

getFullYear(t) == t \div YearTicks
getMonth(t)    == (t % YearTicks) \div MonthTicks
toDateString(t) == t \div DayTicks

\* new Date(year, month, day): local midnight; month and day overflow the
\* way the Date constructor normalises them (day 0 = last day of month-1).
NewDate(year, month, day) ==
    year * YearTicks + month * MonthTicks + (day - 1) * DayTicks

\* The instant of construction: midnight opening the last day of year 1.
StartTime == NewDate(2, 0, 0)

\* JavaScript null / undefined in a numeric or date position.
null == -1

\* ------------------------------------------------------------- inputs
NullBook == [isNull |-> TRUE]
Dune     == [isNull |-> FALSE, id |-> "b1", title |-> "Dune",
             pageCount |-> 4, categories |-> <<"SciFi">>]
Emma     == [isNull |-> FALSE, id |-> "b2", title |-> "Emma",
             pageCount |-> null, categories |-> <<"Classic", "SciFi">>]
NoIdBook    == [Dune EXCEPT !.id = ""]
NoTitleBook == [Emma EXCEPT !.title = ""]

\* Each behaviour draws the arguments of its calls from one profile, fixed
\* at construction.  "errors" draws invalid books and arbitrary item ids;
\* the other profiles draw valid calls only and vary, each, one group of
\* arguments.
Profiles == {"errors", "lists", "pages", "stats"}

\* ---------------------------------------------------------------- state
VARIABLES
    agenda,   \* this.agenda
    stored,   \* value under the Store key "readingAgenda": <<>> or <<agenda>>
    now,      \* the clock read by new Date() / Date.now()
    nextId,   \* next fresh item id
    last,     \* the last call and what it returned
    profile,  \* the argument profile of this behaviour
    discussions,  \* DiscussionManager: this.discussions, the Map's entries
    currentRoom,  \* DiscussionManager: this.currentRoom, by room id
    dstored,      \* value under the Store key "bookDiscussions": <<>> or <<text>>
    nextUid,      \* next fresh room, message or reply id
    localStorage, \* LocalStorageManager: the browser's storage, key by key
    browser,      \* what the browser's storage does when it is accessed
    browserCalls, \* the accesses to the browser's storage made by the last call
    background,   \* a second AgendaManager, while it is not the one running
    turn          \* which of two managers run side by side moves next

\* the state of the DiscussionManager
dvars == <<discussions, currentRoom, dstored, nextUid>>

\* the state of the LocalStorageManager and of the storage under it
svars == <<localStorage, browser, browserCalls>>

\* the second manager
tvars == <<background, turn>>

vars == <<agenda, stored, now, nextId, last, profile,
          discussions, currentRoom, dstored, nextUid,
          localStorage, browser, browserCalls, background, turn>>

\* LocalStorageManager.storageKeys (lines 6-12) and the key of the probe of
\* isLocalStorageAvailable
DISCUSSIONS      == "bookDiscussions"
AGENDA           == "readingAgenda"
USER_PREFERENCES == "userPreferences"
SEARCH_HISTORY   == "searchHistory"
BOOKMARKS        == "bookmarks"
storageKeys == <<DISCUSSIONS, AGENDA, USER_PREFERENCES, SEARCH_HISTORY, BOOKMARKS>>
test == "test"
BrowserKeys == {storageKeys[i] : i \in 1..Len(storageKeys)} \cup {test}

\* a storage holding no item: getItem gives null (<<>>) for every key
EmptyStorage == [key \in BrowserKeys |-> <<>>]

\* a storage nobody has accessed yet, and it works
IdleStore ==
    /\ localStorage = EmptyStorage
    /\ browser = "works"
    /\ browserCalls = <<>>

\* no second manager
OneManager ==
    /\ background = <<>>
    /\ turn = 0

IdsOf(list) == {list[i].id : i \in 1..Len(list)}

BookInputs ==
    IF profile = "errors" THEN {NullBook, Dune, Emma, NoIdBook, NoTitleBook}
    ELSE {Dune, Emma}
Priorities == IF profile = "lists" THEN {"medium", "high"} ELSE {"medium"}
NotesArgs  == {"n1"}
StartIds   == IF profile = "errors" THEN 1..(MaxItems + 1)
              ELSE IdsOf(agenda.toReadList)
ReadingIds == IF profile = "errors" THEN 1..(MaxItems + 1)
              ELSE IdsOf(agenda.currentlyReading)
StartPages == IF profile = "pages" THEN {0, 9} ELSE {0}
\* <<pagesRead, minutesSpent>>; "errors" also draws negative numbers
SessionArgs ==
    IF profile = "pages" THEN {<<3, 30>>, <<10, 0>>}
    ELSE IF profile = "errors" THEN {<<3, 30>>, <<-3, -5>>}
    ELSE {<<3, 30>>}
\* <<rating, finishDate>>; finishDate 0 is a day of year 0
FinishArgs ==
    IF profile = "stats" THEN {<<null, null>>, <<5, null>>, <<2, 0>>}
    ELSE {<<5, null>>}
\* <<targetBooks, timeframe>>
GoalArgs ==
    IF profile = "stats" THEN {<<1, "month">>, <<2, "quarter">>, <<2, "year">>}
    ELSE {<<1, "month">>}

\* ------------------------------------------------------------- helpers
\* { ...a, ...b }: b's fields override a's.
Spread(a, b) == b @@ a

\* Array.prototype.findIndex, 1-based; 0 when no element matches (-1 in JS).
FindIndex(s, P(_)) ==
    IF \E i \in 1..Len(s) : P(s[i])
    THEN CHOOSE i \in 1..Len(s) : P(s[i]) /\ \A j \in 1..(i - 1) : ~P(s[j])
    ELSE 0

\* list.findIndex(item => item.id === bookItemId)
IndexOfIdOrLast(list, bookItemId) ==
    IF bookItemId \in IdsOf(list)
    THEN FindIndex(list, LAMBDA item : item.id = bookItemId)
    ELSE Len(list)

IndexOfId(list, bookItemId) == FindIndex(list, LAMBDA item : item.id = bookItemId)

SpliceKeepsElement(s, i) == s

\* Array.prototype.splice(index, 1): the array without that element.
Splice(s, i) == SubSeq(s, 1, i - 1) \o SubSeq(s, i + 1, Len(s))

\* x || y on numbers: null, undefined and 0 are falsy.
Truthy(x) == x # null /\ x # 0
OrElse(x, y) == IF Truthy(x) THEN x ELSE y

RECURSIVE Gcd(_, _)
Gcd(a, b) == IF b = 0 THEN a ELSE Gcd(b, a % b)

\* a / b as an exact number (a reduced fraction); b > 0.
Div(a, b) == [num |-> a \div Gcd(a, b), den |-> b \div Gcd(a, b)]

getDefaultStats ==
    [booksReadThisYear |-> 0, pagesReadThisYear |-> 0, readingStreak |-> 0,
     averageRating |-> Div(0, 1), favoriteGenres |-> <<>>,
     readingTimePerWeek |-> 0, goalsCompleted |-> 0, totalBooksRead |-> 0]

getDefaultAgenda ==
    [readingGoals |-> <<>>, toReadList |-> <<>>, currentlyReading |-> <<>>,
     finishedBooks |-> <<>>, readingStats |-> getDefaultStats]

\* A call: the operation, the tuple of its arguments, what it returned.
Call(op, args, ret) == [op |-> op, args |-> args, ret |-> ret]

\* the handler's writes without the call of saveToStorage
saveToStorageMemoryOnly(a) ==
    /\ agenda' = a
    /\ stored' = stored

\* the handler's writes dropped when the Store cannot be written
saveToStorageOrForget(a) ==
    /\ agenda' = IF browser = "works" THEN a ELSE agenda
    /\ stored' = IF browser = "works" THEN <<agenda'>> ELSE stored

\* a key that is written only while it is empty
saveToStorageFirstWins(a) ==
    /\ agenda' = a
    /\ stored' = IF stored = <<>> THEN <<agenda'>> ELSE stored

\* The handler's writes to this.agenda followed by saveToStorage: with a
\* Store that can be written the key is rewritten from the in-memory
\* agenda; otherwise setItem returns false (the probe of
\* isLocalStorageAvailable fails), or the exception is caught at lines
\* 1005-1007, and the key keeps its value.
saveToStorage(a) ==
    /\ agenda' = a
    /\ stored' = IF browser \in {"works", "throwsOnRead"} THEN <<agenda'>> ELSE stored

Init ==
    /\ now = StartTime
    /\ agenda = getDefaultAgenda
    /\ stored = <<>>
    /\ nextId = 1
    /\ last = Call("constructor", <<>>, "ok")
    /\ profile \in Profiles
    /\ discussions = <<>>
    /\ currentRoom = null
    /\ dstored = <<>>
    /\ nextUid = 1
    /\ IdleStore
    /\ OneManager

\* ----------------------------------------------------------- operations
InvalidBookDataIgnoresTitle(bookData) ==
    bookData.isNull \/ bookData.id = ""

\* !bookData || !bookData.id || !bookData.title
InvalidBookData(bookData) ==
    bookData.isNull \/ bookData.id = "" \/ bookData.title = ""

NewBookItem(id, bookData, priority) ==
    [id |-> id, bookId |-> bookData.id, title |-> bookData.title,
     pageCount |-> OrElse(bookData.pageCount, 0),
     categories |-> bookData.categories,
     priority |-> priority, notes |-> "",
     plannedReadDate |-> null, isRead |-> FALSE]

\* { ...existing, ...bookItem, id: existing.id }
Upsert(existing, bookItem) ==
    Spread(Spread(existing, bookItem), [id |-> existing.id])

addToReadingList(bookData, priority) ==
    LET call(ret) == Call("addToReadingList", <<bookData, priority>>, ret)
    IN  IF InvalidBookData(bookData)
        THEN /\ last' = call("throw")
             /\ UNCHANGED <<agenda, stored, now, nextId, profile>>
        ELSE LET existingIndex ==
                     FindIndex(agenda.toReadList,
                               LAMBDA item : item.bookId = bookData.id /\ ~item.isRead)
                 bookItem == NewBookItem(nextId, bookData, priority)
             IN  IF existingIndex = 0
                 THEN /\ nextId <= MaxItems
                      /\ saveToStorage([agenda EXCEPT
                             !.toReadList = Append(@, bookItem)])
                      /\ nextId' = nextId + 1
                      /\ last' = call("item")
                      /\ UNCHANGED <<now, profile>>
                 ELSE /\ saveToStorage([agenda EXCEPT
                             !.toReadList[existingIndex] = Upsert(@, bookItem)])
                      /\ last' = call("item")
                      /\ UNCHANGED <<now, nextId, profile>>

MoveToReadingWrongList(a, bookIndex, currentPage) ==
    LET book == a.toReadList[bookIndex]
        currentlyReadingItem ==
            Spread(book, [currentPage |-> currentPage, readingSessions |-> <<>>])
    IN  [a EXCEPT !.toReadList = Splice(@, bookIndex),
                  !.finishedBooks = Append(@, currentlyReadingItem)]

\* lines 1054-1056: splice the book out of toReadList, push the started item
MoveToReading(a, bookIndex, currentPage) ==
    LET book == a.toReadList[bookIndex]
        currentlyReadingItem ==
            Spread(book, [currentPage |-> currentPage, readingSessions |-> <<>>])
    IN  [a EXCEPT !.toReadList = Splice(@, bookIndex),
                  !.currentlyReading = Append(@, currentlyReadingItem)]

startReading(bookItemId, currentPage) ==
    LET call(ret) == Call("startReading", <<bookItemId, currentPage>>, ret)
        bookIndex == IndexOfId(agenda.toReadList, bookItemId)
    IN  IF bookIndex = 0
        THEN /\ last' = call("false")
             /\ UNCHANGED <<agenda, stored, now, nextId, profile>>
        ELSE /\ saveToStorage(MoveToReading(agenda, bookIndex, currentPage))
             /\ last' = call("true")
             /\ UNCHANGED <<now, nextId, profile>>

\* findBookById: the first list, in this order, holding the id, and the
\* index there; <<>> for the JS null.
findBookById(a, bookItemId) ==
    LET hit(list) == IndexOfId(a[list], bookItemId)
    IN  IF hit("toReadList") # 0 THEN <<"toReadList", hit("toReadList")>>
        ELSE IF hit("currentlyReading") # 0
             THEN <<"currentlyReading", hit("currentlyReading")>>
        ELSE IF hit("finishedBooks") # 0
             THEN <<"finishedBooks", hit("finishedBooks")>>
        ELSE <<>>

\* sessions.reduce((total, s) => total + (s.minutesSpent || 0), 0)
RECURSIVE calculateTotalReadingTime(_)
calculateTotalReadingTime(sessions) ==
    IF sessions = <<>> THEN 0
    ELSE OrElse(Head(sessions).minutesSpent, 0)
         + calculateTotalReadingTime(Tail(sessions))

\* books.flatMap(b => b.readingSessions)
RECURSIVE FlatSessions(_)
FlatSessions(books) ==
    IF books = <<>> THEN <<>>
    ELSE Head(books).readingSessions \o FlatSessions(Tail(books))

calculateWeeklyReadingTime(a) ==
    LET oneWeekAgo == now - WeekTicks
        recentSessions == SelectSeq(FlatSessions(a.currentlyReading),
                                    LAMBDA s : s.date >= oneWeekAgo)
    IN  calculateTotalReadingTime(recentSessions)

\* a count of the days with a session, gaps or not
StreakIgnoresGaps(dates, current) == Cardinality(dates)

\* while (dates.has(current.toDateString())) { streak++; current.setDate(...) }
RECURSIVE StreakFrom(_, _)
StreakFrom(dates, current) ==
    IF current \in dates THEN 1 + StreakFrom(dates, current - 1) ELSE 0

calculateReadingStreak(a) ==
    LET sessions == FlatSessions(a.currentlyReading) \o FlatSessions(a.finishedBooks)
        dates == {toDateString(sessions[i].date) : i \in 1..Len(sessions)}
    IN  IF sessions = <<>> THEN 0 ELSE StreakFrom(dates, toDateString(now))

updateReadingStats(a, session) ==
    [a EXCEPT !.readingStats =
        [@ EXCEPT !.pagesReadThisYear = @ + session.pagesRead,
                  !.readingTimePerWeek = calculateWeeklyReadingTime(a),
                  !.readingStreak = calculateReadingStreak(a)]]

NewPageUnclamped(book, pagesRead) == book.currentPage + pagesRead

\* Math.min(book.currentPage + pagesRead, book.pageCount || Infinity)
NewPage(book, pagesRead) ==
    LET summed == book.currentPage + pagesRead
    IN  IF Truthy(book.pageCount) /\ book.pageCount < summed
        THEN book.pageCount ELSE summed

addReadingSession(bookItemId, pagesRead, minutesSpent) ==
    LET call(ret) ==
            Call("addReadingSession", <<bookItemId, pagesRead, minutesSpent>>, ret)
        found == findBookById(agenda, bookItemId)
    IN  IF found = <<>> \/ found[1] # "currentlyReading"
        THEN /\ last' = call("false")
             /\ UNCHANGED <<agenda, stored, now, nextId, profile>>
        ELSE LET i == found[2]
                 book == agenda.currentlyReading[i]
                 newPage == NewPage(book, pagesRead)
                 session == [date |-> now, pagesRead |-> pagesRead,
                             minutesSpent |-> minutesSpent,
                             startPage |-> book.currentPage, endPage |-> newPage]
                 withSession ==
                     [agenda EXCEPT !.currentlyReading[i] =
                         [book EXCEPT !.currentPage = newPage,
                                      !.readingSessions = Append(@, session)]]
             IN  /\ Len(FlatSessions(agenda.currentlyReading))
                        + Len(FlatSessions(agenda.finishedBooks)) < MaxSessions
                 /\ saveToStorage(updateReadingStats(withSession, session))
                 /\ last' = call("true")
                 /\ UNCHANGED <<now, nextId, profile>>

\* Object.entries(counts) of the categories of the finished books, in
\* first-seen order, stably sorted by falling count, the first five names.
RECURSIVE FlatCategories(_)
FlatCategories(books) ==
    IF books = <<>> THEN <<>>
    ELSE Head(books).categories \o FlatCategories(Tail(books))

RECURSIVE FirstSeen(_, _)
FirstSeen(cats, seen) ==
    IF cats = <<>> THEN seen
    ELSE FirstSeen(Tail(cats),
                   IF \E i \in 1..Len(seen) : seen[i] = Head(cats)
                   THEN seen ELSE Append(seen, Head(cats)))

CountOf(cats, c) == Cardinality({i \in 1..Len(cats) : cats[i] = c})

RECURSIVE StableSortDesc(_, _)
StableSortDesc(keys, cats) ==
    IF keys = <<>> THEN <<>>
    ELSE LET best == CHOOSE i \in 1..Len(keys) :
                        /\ \A j \in 1..Len(keys) :
                              CountOf(cats, keys[j]) <= CountOf(cats, keys[i])
                        /\ \A j \in 1..(i - 1) :
                              CountOf(cats, keys[j]) < CountOf(cats, keys[i])
         IN  <<keys[best]>> \o StableSortDesc(Splice(keys, best), cats)

calculateFavoriteGenres(a) ==
    LET cats == FlatCategories(a.finishedBooks)
        sorted == StableSortDesc(FirstSeen(cats, <<>>), cats)
    IN  SubSeq(sorted, 1, IF Len(sorted) < 5 THEN Len(sorted) ELSE 5)

RECURSIVE SumRatings(_)
SumRatings(books) ==
    IF books = <<>> THEN 0 ELSE Head(books).rating + SumRatings(Tail(books))

\* stats.totalBooksRead++ moved under the year test
updateFinishedBookStatsYearOnly(a, book) ==
    LET currentYear == getFullYear(now)
        ratedBooks == SelectSeq(a.finishedBooks, LAMBDA b : Truthy(b.rating))
        thisYear == getFullYear(book.finishDate) = currentYear
    IN  [a EXCEPT !.readingStats =
            [@ EXCEPT
                !.booksReadThisYear = IF thisYear THEN @ + 1 ELSE @,
                !.totalBooksRead = IF thisYear THEN @ + 1 ELSE @,
                !.averageRating =
                    IF Truthy(book.rating)
                    THEN Div(SumRatings(ratedBooks), Len(ratedBooks)) ELSE @,
                !.favoriteGenres = calculateFavoriteGenres(a)]]

\* the rating sum divided by the number of all finished books
updateFinishedBookStatsAllBooks(a, book) ==
    LET currentYear == getFullYear(now)
        ratedBooks == SelectSeq(a.finishedBooks, LAMBDA b : Truthy(b.rating))
    IN  [a EXCEPT !.readingStats =
            [@ EXCEPT
                !.booksReadThisYear =
                    IF getFullYear(book.finishDate) = currentYear THEN @ + 1 ELSE @,
                !.totalBooksRead = @ + 1,
                !.averageRating =
                    IF Truthy(book.rating)
                    THEN Div(SumRatings(ratedBooks), Len(a.finishedBooks)) ELSE @,
                !.favoriteGenres = calculateFavoriteGenres(a)]]

\* called after the book was pushed to a.finishedBooks
updateFinishedBookStats(a, book) ==
    LET currentYear == getFullYear(now)
        ratedBooks == SelectSeq(a.finishedBooks, LAMBDA b : Truthy(b.rating))
    IN  [a EXCEPT !.readingStats =
            [@ EXCEPT
                !.booksReadThisYear =
                    IF getFullYear(book.finishDate) = currentYear THEN @ + 1 ELSE @,
                !.totalBooksRead = @ + 1,
                !.averageRating =
                    IF Truthy(book.rating)
                    THEN Div(SumRatings(ratedBooks), Len(ratedBooks)) ELSE @,
                !.favoriteGenres = calculateFavoriteGenres(a)]]

\* the filter without its upper bound book.finishDate <= goal.endDate
checkGoalIgnoresEndDate(a, goal) ==
    IF goal.isCompleted THEN goal
    ELSE LET booksThisPeriod ==
                 Len(SelectSeq(a.finishedBooks,
                               LAMBDA book : book.finishDate >= goal.startDate))
         IN  [goal EXCEPT !.booksCompleted = booksThisPeriod,
                          !.progress = Div(booksThisPeriod * 100, goal.targetBooks),
                          !.isCompleted = booksThisPeriod >= goal.targetBooks]

\* lines 1175-1180: the body of the forEach, for one goal
checkGoal(a, goal) ==
    IF goal.isCompleted THEN goal
    ELSE LET booksThisPeriod ==
                 Len(SelectSeq(a.finishedBooks,
                               LAMBDA book : /\ book.finishDate >= goal.startDate
                                             /\ book.finishDate <= goal.endDate))
         IN  [goal EXCEPT !.booksCompleted = booksThisPeriod,
                          !.progress = Div(booksThisPeriod * 100, goal.targetBooks),
                          !.isCompleted = booksThisPeriod >= goal.targetBooks]

\* goalsCompleted++ for every goal found completed, also one that was
\* completed before
checkGoalsCompletionCountsCompleted(a) ==
    LET goals == [g \in 1..Len(a.readingGoals) |-> checkGoal(a, a.readingGoals[g])]
        completed == {g \in 1..Len(goals) : goals[g].isCompleted}
    IN  [a EXCEPT !.readingGoals = goals,
                  !.readingStats.goalsCompleted = @ + Cardinality(completed)]

checkGoalsCompletion(a) ==
    LET goals == [g \in 1..Len(a.readingGoals) |-> checkGoal(a, a.readingGoals[g])]
        newlyCompleted == {g \in 1..Len(goals) :
                              ~a.readingGoals[g].isCompleted /\ goals[g].isCompleted}
    IN  [a EXCEPT !.readingGoals = goals,
                  !.readingStats.goalsCompleted = @ + Cardinality(newlyCompleted)]

MoveToFinishedDropsSessions(a, index, rating, finishDate) ==
    LET book == a.currentlyReading[index]
        finishedBook ==
            Spread(book,
                   [finishDate |-> IF finishDate # null THEN finishDate ELSE now,
                    rating |-> rating, isRead |-> TRUE, readingSessions |-> <<>>,
                    readingTime |-> calculateTotalReadingTime(book.readingSessions)])
    IN  [a EXCEPT !.currentlyReading = Splice(@, index),
                  !.finishedBooks = Append(@, finishedBook)]

\* lines 1086-1088: splice the book out of currentlyReading, push the
\* finished book
MoveToFinished(a, index, rating, finishDate) ==
    LET book == a.currentlyReading[index]
        finishedBook ==
            Spread(book,
                   [finishDate |-> IF finishDate # null THEN finishDate ELSE now,
                    rating |-> rating, isRead |-> TRUE,
                    readingTime |-> calculateTotalReadingTime(book.readingSessions)])
    IN  [a EXCEPT !.currentlyReading = Splice(@, index),
                  !.finishedBooks = Append(@, finishedBook)]

finishReading(bookItemId, rating, finishDate) ==
    LET call(ret) == Call("finishReading", <<bookItemId, rating, finishDate>>, ret)
        index == IndexOfId(agenda.currentlyReading, bookItemId)
    IN  IF index = 0
        THEN /\ last' = call("false")
             /\ UNCHANGED <<agenda, stored, now, nextId, profile>>
        ELSE LET moved == MoveToFinished(agenda, index, rating, finishDate)
                 finishedBook == moved.finishedBooks[Len(moved.finishedBooks)]
             IN  /\ saveToStorage(checkGoalsCompletion(
                                      updateFinishedBookStats(moved, finishedBook)))
                 /\ last' = call("true")
                 /\ UNCHANGED <<now, nextId, profile>>

calculateGoalEndDate(timeframe) ==
    CASE timeframe = "month"   -> NewDate(getFullYear(now), getMonth(now) + 1, 0)
      [] timeframe = "quarter" -> NewDate(getFullYear(now), getMonth(now) + 3, 0)
      [] OTHER                 -> NewDate(getFullYear(now), 11, 31)

setReadingGoal(targetBooks, timeframe, endDate) ==
    LET goal == [id |-> Len(agenda.readingGoals) + 1, targetBooks |-> targetBooks,
                 timeframe |-> timeframe, startDate |-> now,
                 endDate |-> IF endDate # null THEN endDate
                             ELSE calculateGoalEndDate(timeframe),
                 booksCompleted |-> 0, isCompleted |-> FALSE,
                 progress |-> Div(0, 1)]
    IN  /\ Len(agenda.readingGoals) < MaxGoals
        /\ saveToStorage([agenda EXCEPT !.readingGoals = Append(@, goal)])
        /\ last' = Call("setReadingGoal", <<targetBooks, timeframe, endDate>>, "goal")
        /\ UNCHANGED <<now, nextId, profile>>

\* updateBookNotes(bookItemId, notes): called at line 835 after a progress
\* update; its body is not part of the sources.  It attaches the notes to
\* the item findBookById returns and persists.
updateBookNotes(bookItemId, notes) ==
    LET found == findBookById(agenda, bookItemId)
    IN  /\ found # <<>>
        /\ saveToStorage([agenda EXCEPT ![found[1]][found[2]].notes = notes])
        /\ last' = Call("updateBookNotes", <<bookItemId, notes>>, "ok")
        /\ UNCHANGED <<now, nextId, profile>>

\* exportAgendaData(): the text of { version: "1.0", exportDate, agenda,
\* metadata }, as JSON.parse reads it back.  A payload is what JSON.parse
\* (or the caller, for a non-string argument) yields: parses is false for a
\* text that JSON.parse rejects, isNull holds for null or undefined, version
\* is "" when the field is missing, hasAgenda tells whether the agenda field
\* is there.
exportAgendaData(a) ==
    [parses |-> TRUE, isNull |-> FALSE, version |-> "1.0",
     hasAgenda |-> TRUE, agenda |-> a]

\* parsed.version && parsed.agenda
Accepts(parsed) == parsed.version # "" /\ parsed.hasAgenda

importAgendaData(data) ==
    LET call(ret) == Call("importAgendaData", <<data>>, ret)
    IN  IF ~data.parses \/ data.isNull
        THEN /\ last' = call("false")
             /\ UNCHANGED <<agenda, stored, now, nextId, profile>>
        ELSE /\ saveToStorage(IF Accepts(data)
                              THEN Spread(getDefaultAgenda, data.agenda)
                              ELSE agenda)
             /\ last' = call("true")
             /\ UNCHANGED <<now, nextId, profile>>

\* time passes between calls
Tick ==
    /\ now < StartTime + MaxNow
    /\ now' = now + 1
    /\ UNCHANGED <<agenda, stored, nextId, last, profile>>
    /\ UNCHANGED <<dvars, svars, tvars>>

AddToReadingList ==
    /\ \E b \in BookInputs, p \in Priorities : addToReadingList(b, p)
    /\ UNCHANGED <<dvars, svars, tvars>>
StartReading ==
    /\ \E id \in StartIds, page \in StartPages : startReading(id, page)
    /\ UNCHANGED <<dvars, svars, tvars>>
AddReadingSession ==
    /\ \E id \in ReadingIds, arg \in SessionArgs :
          addReadingSession(id, arg[1], arg[2])
    /\ UNCHANGED <<dvars, svars, tvars>>
FinishReading ==
    /\ \E id \in ReadingIds, arg \in FinishArgs :
          finishReading(id, arg[1], arg[2])
    /\ UNCHANGED <<dvars, svars, tvars>>
UpdateBookNotes ==
    /\ \E id \in 1..MaxItems, notes \in NotesArgs :
          profile = "lists" /\ updateBookNotes(id, notes)
    /\ UNCHANGED <<dvars, svars, tvars>>
SetReadingGoal ==
    /\ \E arg \in GoalArgs : setReadingGoal(arg[1], arg[2], null)
    /\ UNCHANGED <<dvars, svars, tvars>>

\* the payloads handed to importAgendaData
Garbage     == [exportAgendaData(getDefaultAgenda) EXCEPT !.parses = FALSE]
NullPayload == [exportAgendaData(getDefaultAgenda) EXCEPT !.isNull = TRUE]
NoVersion   == [exportAgendaData(getDefaultAgenda) EXCEPT !.version = ""]
NoAgenda    == [parses |-> TRUE, isNull |-> FALSE, version |-> "1.0",
                hasAgenda |-> FALSE, agenda |-> <<>>]
GoalsOnly   == [exportAgendaData(getDefaultAgenda) EXCEPT
                   !.agenda = [readingGoals |-> <<>>]]
Payloads ==
    {Garbage, NullPayload, NoVersion, NoAgenda, GoalsOnly, exportAgendaData(agenda)}

ImportAgendaData ==
    /\ \E data \in Payloads : profile = "errors" /\ importAgendaData(data)
    /\ UNCHANGED <<dvars, svars, tvars>>

Next ==
    \/ AddToReadingList
    \/ StartReading
    \/ AddReadingSession
    \/ FinishReading
    \/ SetReadingGoal
    \/ UpdateBookNotes
    \/ Tick

Spec == Init /\ [][Next]_vars

\* the agenda with its import operation
NextImport == Next \/ ImportAgendaData

SpecImport == Init /\ [][NextImport]_vars

\* The agenda over several days: the clock moves by whole days, one day or
\* a week at a time, so that sessions fall on different calendar days and
\* leave the trailing seven days.
MaxDays == 9    \* days the clock advances after construction

InitDays ==
    /\ now = StartTime
    /\ agenda = getDefaultAgenda
    /\ stored = <<>>
    /\ nextId = 1
    /\ last = Call("constructor", <<>>, "ok")
    /\ profile = "days"
    /\ discussions = <<>>
    /\ currentRoom = null
    /\ dstored = <<>>
    /\ nextUid = 1
    /\ IdleStore
    /\ OneManager

NextDay ==
    /\ \E days \in {1, 7} :
          /\ now + days * DayTicks <= StartTime + MaxDays * DayTicks
          /\ now' = now + days * DayTicks
    /\ UNCHANGED <<agenda, stored, nextId, last, profile>>
    /\ UNCHANGED <<dvars, svars, tvars>>

NextDays ==
    \/ AddToReadingList
    \/ StartReading
    \/ AddReadingSession
    \/ FinishReading
    \/ NextDay

SpecDays == InitDays /\ [][NextDays]_vars

\* ------------------------------------------------------ discussion rooms
\* DiscussionManager (src/unnamed/part_001).  this.discussions, a Map from
\* bookId to the array of the book's rooms, is the sequence of its entries
\* in insertion order.  A room's bookTitle, bookAuthor, name, description
\* and tags and a message's rating are written once and read only by
\* searchDiscussions; they are left out.
MaxRooms    == 2    \* rooms created by createDiscussionRoom
MaxMessages == 2    \* messages posted in all rooms
MaxReplies  == 1    \* replies posted in all rooms

\* Each behaviour of the DiscussionManager draws its calls from one
\* profile, fixed at construction: "faults" passes ids of no room and of no
\* message, and loads the page again; "rooms" has two users open, join and
\* close rooms for two books; "likes" has two users like two messages;
\* "texts" passes every text while time passes.
DProfiles == {"faults", "rooms", "likes", "texts"}

RoomCap    == IF profile = "rooms" THEN MaxRooms ELSE MaxRooms - 1
MessageCap == IF profile \in {"likes", "texts"} THEN MaxMessages ELSE MaxMessages - 1
ReplyCap   == IF profile \in {"faults", "texts"} THEN MaxReplies ELSE MaxReplies - 1
\* the ids generated in a behaviour
UidCap     == RoomCap + MessageCap + ReplyCap

Users     == IF profile \in {"rooms", "likes"} THEN {"u1", "u2"} ELSE {"u1"}
RoomBooks == IF profile = "rooms" THEN {"b1", "b2"} ELSE {"b1"}

\* A text is the sequence of its runs of equal characters: "  hi " is
\* <<Run(" ", 2), Run("x", 2), Run(" ", 1)>>.
Run(ch, n) == [ch |-> ch, n |-> n]

RECURSIVE length(_)
length(text) == IF text = <<>> THEN 0 ELSE Head(text).n + length(Tail(text))

\* String.prototype.trim: the text without its leading and trailing blanks
trim(text) ==
    LET noLead == IF text # <<>> /\ Head(text).ch = " " THEN Tail(text) ELSE text
    IN  IF noLead # <<>> /\ noLead[Len(noLead)].ch = " "
        THEN SubSeq(noLead, 1, Len(noLead) - 1) ELSE noLead

Empty  == <<>>
Blank  == <<Run(" ", 2)>>
Padded == <<Run(" ", 1), Run("x", 2), Run(" ", 1)>>
Long   == <<Run("x", 501)>>
Texts  == IF profile = "texts" THEN {Empty, Blank, Padded, Long} ELSE {Padded}

\* new Set(...) with these elements, and the plain object {} that
\* JSON.parse gives back for a stringified Set: it has no add, has, delete
\* or forEach.
SetOf(elems) == [isSet |-> TRUE, elems |-> elems]
PlainObject  == [isSet |-> FALSE, elems |-> {}]

\* JSON.stringify followed by JSON.parse: a Set has no enumerable own
\* properties and is written as {}; strings, numbers, booleans and arrays
\* come back as they were.
JsonOfSet(set) == PlainObject

JsonOfMessage(msg) == [msg EXCEPT !.likes = JsonOfSet(@)]

JsonOfRoom(room) ==
    [room EXCEPT !.members = JsonOfSet(@),
                 !.messages = [i \in 1..Len(@) |-> JsonOfMessage(@[i])]]

\* JSON.stringify(Array.from(this.discussions.entries()))
stringify(d) ==
    [e \in 1..Len(d) |->
        [d[e] EXCEPT !.rooms = [r \in 1..Len(@) |-> JsonOfRoom(@[r])]]]

\* saveToStorage with a working Store, after the handler's writes
DiscussionSaveToStorage(d) ==
    /\ discussions' = d
    /\ dstored' = <<stringify(discussions')>>

\* loadFromStorage: new Map(JSON.parse(stored)), or the empty Map
loadFromStorage == IF dstored = <<>> THEN <<>> ELSE dstored[1]

RECURSIVE AllRooms(_)
AllRooms(d) == IF d = <<>> THEN <<>> ELSE Head(d).rooms \o AllRooms(Tail(d))

RECURSIVE AllMessages(_)
AllMessages(rooms) ==
    IF rooms = <<>> THEN <<>> ELSE Head(rooms).messages \o AllMessages(Tail(rooms))

RECURSIVE AllReplies(_)
AllReplies(msgs) ==
    IF msgs = <<>> THEN <<>> ELSE Head(msgs).replies \o AllReplies(Tail(msgs))

\* the first room of the Map when no room has the id
findRoomByIdOrFirst(d, roomId) ==
    LET hits == {<<e, r>> \in (1..Len(d)) \X (1..MaxRooms + 1) :
                    r <= Len(d[e].rooms) /\ d[e].rooms[r].id = roomId}
    IN  IF hits = {} THEN (IF d = <<>> THEN <<>> ELSE <<1, 1>>)
        ELSE CHOOSE h \in hits :
                 \A g \in hits : h[1] < g[1] \/ (h[1] = g[1] /\ h[2] <= g[2])

\* findRoomById: <<entry, index>> of the first room with this id, <<>> for
\* the JS null
findRoomById(d, roomId) ==
    LET hits == {<<e, r>> \in (1..Len(d)) \X (1..MaxRooms + 1) :
                    r <= Len(d[e].rooms) /\ d[e].rooms[r].id = roomId}
    IN  IF hits = {} THEN <<>>
        ELSE CHOOSE h \in hits :
                 \A g \in hits : h[1] < g[1] \/ (h[1] = g[1] /\ h[2] <= g[2])

RoomAt(d, at) == d[at[1]].rooms[at[2]]

WithRoom(d, at, room) == [d EXCEPT ![at[1]].rooms[at[2]] = room]

DCall(ret) ==
    /\ UNCHANGED <<agenda, stored, nextId, profile, now>>
    /\ UNCHANGED <<svars, tvars>>
    /\ last' = ret

createDiscussionRoom(bookId) ==
    LET discussionRoom ==
            [id |-> nextUid, bookId |-> bookId, createdAt |-> now,
             members |-> SetOf({}), messages |-> <<>>, isActive |-> TRUE,
             closedBy |-> "", closedAt |-> null, lastActivity |-> null]
        entry == FindIndex(discussions, LAMBDA e : e.bookId = bookId)
    IN  /\ Len(AllRooms(discussions)) < RoomCap /\ nextUid <= UidCap
        /\ DiscussionSaveToStorage(
               IF entry = 0
               THEN Append(discussions,
                           [bookId |-> bookId, rooms |-> <<discussionRoom>>])
               ELSE [discussions EXCEPT ![entry].rooms = Append(@, discussionRoom)])
        /\ nextUid' = nextUid + 1
        /\ DCall(Call("createDiscussionRoom", <<bookId>>, "room"))
        /\ UNCHANGED currentRoom

joinRoom(roomId, userName) ==
    LET call(ret) == Call("joinRoom", <<roomId, userName>>, ret)
        at == findRoomById(discussions, roomId)
    IN  IF at # <<>> /\ RoomAt(discussions, at).isActive
        THEN IF RoomAt(discussions, at).members.isSet
             THEN /\ DiscussionSaveToStorage(
                         WithRoom(discussions, at,
                             [RoomAt(discussions, at) EXCEPT
                                 !.members.elems = @ \cup {userName}]))
                  /\ currentRoom' = roomId
                  /\ DCall(call("true"))
                  /\ UNCHANGED nextUid
             ELSE \* room.members.add is not a function
                  /\ DCall(call("TypeError"))
                  /\ UNCHANGED dvars
        ELSE /\ DCall(call("false"))
             /\ UNCHANGED dvars

leaveRoom(userName) ==
    LET at == findRoomById(discussions, currentRoom)
    IN  /\ currentRoom # null
        /\ DiscussionSaveToStorage(
               WithRoom(discussions, at,
                   [RoomAt(discussions, at) EXCEPT !.members.elems = @ \ {userName}]))
        /\ currentRoom' = null
        /\ DCall(Call("leaveRoom", <<userName>>, "undefined"))
        /\ UNCHANGED nextUid

postMessage(roomId, userName, message) ==
    LET call(ret) == Call("postMessage", <<roomId, userName, message>>, ret)
        at == findRoomById(discussions, roomId)
    IN  IF at = <<>> \/ ~RoomAt(discussions, at).isActive
        THEN /\ DCall(call("throw"))
             /\ UNCHANGED dvars
        ELSE LET room == RoomAt(discussions, at)
                 messageObj == [id |-> nextUid, userName |-> userName,
                                message |-> trim(message), timestamp |-> now,
                                likes |-> SetOf({}), replies |-> <<>>]
                 pushed == [room EXCEPT !.messages = Append(@, messageObj)]
             IN  /\ Len(AllMessages(AllRooms(discussions))) < MessageCap /\ nextUid <= UidCap
                 /\ nextUid' = nextUid + 1
                 /\ UNCHANGED currentRoom
                 /\ IF room.members.isSet
                    THEN /\ DiscussionSaveToStorage(
                                WithRoom(discussions, at,
                                    [pushed EXCEPT
                                        !.members.elems = @ \cup {userName},
                                        !.lastActivity = now]))
                         /\ DCall(call("message"))
                    ELSE \* room.members.add is not a function, thrown after
                         \* the push and before saveToStorage
                         /\ discussions' = WithRoom(discussions, at, pushed)
                         /\ dstored' = dstored
                         /\ DCall(call("TypeError"))

\* room.messages.find(msg => msg.id === messageId), 0 for undefined
IndexOfMessage(room, messageId) ==
    FindIndex(room.messages, LAMBDA msg : msg.id = messageId)

\* likes.add(userName) in both branches
ToggleAlwaysAdds(likes, userName) == likes \cup {userName}

\* lines 189-193: delete the name when it is there, add it when it is not
Toggle(likes, userName) ==
    IF userName \in likes THEN likes \ {userName} ELSE likes \cup {userName}

likeMessage(roomId, messageId, userName) ==
    LET call(ret) == Call("likeMessage", <<roomId, messageId, userName>>, ret)
        at == findRoomById(discussions, roomId)
        m  == IF at = <<>> THEN 0
              ELSE IndexOfMessage(RoomAt(discussions, at), messageId)
    IN  IF m # 0
        THEN LET room == RoomAt(discussions, at)
             IN  IF room.messages[m].likes.isSet
                 THEN /\ DiscussionSaveToStorage(
                             WithRoom(discussions, at,
                                 [room EXCEPT !.messages[m].likes.elems =
                                     Toggle(@, userName)]))
                      /\ DCall(call("true"))
                      /\ UNCHANGED <<currentRoom, nextUid>>
                 ELSE \* message.likes.has is not a function
                      /\ DCall(call("TypeError"))
                      /\ UNCHANGED dvars
        ELSE /\ DCall(call("false"))
             /\ UNCHANGED dvars

postReply(roomId, messageId, userName, reply) ==
    LET call(ret) == Call("postReply", <<roomId, messageId, userName, reply>>, ret)
        at == findRoomById(discussions, roomId)
        m  == IF at = <<>> THEN 0
              ELSE IndexOfMessage(RoomAt(discussions, at), messageId)
    IN  IF m = 0
        THEN /\ DCall(call("throw"))
             /\ UNCHANGED dvars
        ELSE LET replyObj == [id |-> nextUid, userName |-> userName,
                              message |-> trim(reply), timestamp |-> now]
             IN  /\ Len(AllReplies(AllMessages(AllRooms(discussions)))) < ReplyCap
                 /\ nextUid <= UidCap
                 /\ DiscussionSaveToStorage(
                        WithRoom(discussions, at,
                            [RoomAt(discussions, at) EXCEPT
                                !.messages[m].replies = Append(@, replyObj)]))
                 /\ nextUid' = nextUid + 1
                 /\ DCall(call("reply"))
                 /\ UNCHANGED currentRoom

\* closeRoom without its write of room.isActive
CloseKeepsActive(room, userName) ==
    [room EXCEPT !.closedBy = userName, !.closedAt = now]

\* lines 289-291
Close(room, userName) ==
    [room EXCEPT !.isActive = FALSE, !.closedBy = userName, !.closedAt = now]

closeRoom(roomId, userName) ==
    LET call(ret) == Call("closeRoom", <<roomId, userName>>, ret)
        at == findRoomById(discussions, roomId)
    IN  IF at # <<>>
        THEN /\ DiscussionSaveToStorage(
                    WithRoom(discussions, at,
                             Close(RoomAt(discussions, at), userName)))
             /\ DCall(call("true"))
             /\ UNCHANGED <<currentRoom, nextUid>>
        ELSE /\ DCall(call("false"))
             /\ UNCHANGED dvars

\* getStatistics(): the counts, or "TypeError" when a room's members have
\* no forEach
getStatistics(d) ==
    LET rooms == AllRooms(d)
    IN  IF \E r \in 1..Len(rooms) : ~rooms[r].members.isSet
        THEN "TypeError"
        ELSE [totalRooms |-> Len(rooms),
              totalMessages |-> Len(AllMessages(rooms)),
              totalMembers |->
                  Cardinality(UNION {rooms[r].members.elems : r \in 1..Len(rooms)}),
              activeRooms |-> Len(SelectSeq(rooms, LAMBDA room : room.isActive))]

\* a page load: a new DiscussionManager is constructed over the Store
Reload ==
    /\ profile = "faults"
    /\ discussions' = loadFromStorage
    /\ currentRoom' = null
    /\ DCall(Call("constructor", <<>>, "ok"))
    /\ UNCHANGED <<dstored, nextUid>>

\* the ids the callers pass: those of the rooms and messages there are,
\* and 0, the id of none
RoomIds ==
    (IF profile = "faults" THEN {0} ELSE {})
    \cup {AllRooms(discussions)[r].id : r \in 1..Len(AllRooms(discussions))}
MessageIds(roomId) ==
    LET in(rooms) == {AllMessages(rooms)[m].id : m \in 1..Len(AllMessages(rooms))}
    IN  IF profile = "faults" THEN {0} \cup in(AllRooms(discussions))
        ELSE in(SelectSeq(AllRooms(discussions), LAMBDA room : room.id = roomId))

CreateDiscussionRoom == \E bookId \in RoomBooks : createDiscussionRoom(bookId)
JoinRoom  == \E roomId \in RoomIds, u \in Users : joinRoom(roomId, u)
LeaveRoom == \E u \in Users : leaveRoom(u)
PostMessage ==
    \E roomId \in RoomIds, u \in Users, text \in Texts : postMessage(roomId, u, text)
LikeMessage ==
    profile # "rooms" /\ \E roomId \in RoomIds, u \in Users :
        \E messageId \in MessageIds(roomId) : likeMessage(roomId, messageId, u)
PostReply ==
    \E roomId \in RoomIds, u \in Users, text \in Texts :
        \E messageId \in MessageIds(roomId) : postReply(roomId, messageId, u, text)
CloseRoom == \E roomId \in RoomIds, u \in Users : closeRoom(roomId, u)

\* time passes between the calls of a session
DiscussionTick == profile = "texts" /\ Tick

InitDiscussion ==
    /\ now = StartTime
    /\ agenda = getDefaultAgenda
    /\ stored = <<>>
    /\ nextId = 1
    /\ last = Call("constructor", <<>>, "ok")
    /\ profile \in DProfiles
    /\ dstored = <<>>
    /\ discussions = loadFromStorage
    /\ currentRoom = null
    /\ nextUid = 1
    /\ IdleStore
    /\ OneManager

NextDiscussion ==
    \/ CreateDiscussionRoom
    \/ JoinRoom
    \/ LeaveRoom
    \/ PostMessage
    \/ LikeMessage
    \/ PostReply
    \/ CloseRoom
    \/ DiscussionTick

\* one DiscussionManager from its construction over an empty Store
SpecDiscussion == InitDiscussion /\ [][NextDiscussion]_vars

\* the DiscussionManager across page loads
NextReload == NextDiscussion \/ Reload

SpecReload == InitDiscussion /\ [][NextReload]_vars

\* either manager, with a working Store
InitEngines == Init \/ InitDiscussion

NextEngines ==
    \/ profile \in Profiles /\ Next
    \/ profile \in DProfiles /\ NextDiscussion

SpecEngines == InitEngines /\ [][NextEngines]_vars

\* ------------------------------------------------- a second manager
\* Two AgendaManager objects.  One runs (its fields are the variables
\* agenda, nextId and last, and browser is the storage it finds); the
\* other waits in background.  The managers are synchronous: a call runs
\* to its end before the other manager runs.
Waiting(a, id, call, storage) ==
    [agenda |-> a, nextId |-> id, last |-> call, browser |-> storage]

\* the waiting manager runs and the running one waits
Exchange ==
    /\ agenda' = background.agenda
    /\ nextId' = background.nextId
    /\ last' = background.last
    /\ browser' = background.browser
    /\ background' = Waiting(agenda, nextId, last, browser)
    /\ UNCHANGED <<stored, now, profile, localStorage, browserCalls>>
    /\ UNCHANGED dvars

\* the calls a caller makes of the running manager, with their arguments
CallArgs ==
    {Call("addToReadingList", <<b, p>>, "") : b \in BookInputs, p \in Priorities}
    \cup {Call("startReading", <<id, page>>, "") : id \in StartIds, page \in StartPages}
    \cup {Call("addReadingSession", <<id, arg[1], arg[2]>>, "") :
             id \in ReadingIds, arg \in SessionArgs}
    \cup {Call("finishReading", <<id, arg[1], arg[2]>>, "") :
             id \in ReadingIds, arg \in FinishArgs}
    \cup {Call("setReadingGoal", <<arg[1], arg[2], null>>, "") : arg \in GoalArgs}

Apply(op, args) ==
    CASE op = "addToReadingList"  -> addToReadingList(args[1], args[2])
      [] op = "startReading"      -> startReading(args[1], args[2])
      [] op = "addReadingSession" -> addReadingSession(args[1], args[2], args[3])
      [] op = "finishReading"     -> finishReading(args[1], args[2], args[3])
      [] op = "setReadingGoal"    -> setReadingGoal(args[1], args[2], args[3])

\* Two sessions side by side, one over a working Store and one over a
\* Store all of whose accesses throw, each constructed over its Store
\* (lines 920-992: the agenda is the default one in both).  The first
\* session makes a call (turn 0), the second one makes the same call
\* (turn 2); they change places in between (turns 1 and 3).
InitSessions ==
    /\ now = StartTime
    /\ agenda = getDefaultAgenda
    /\ stored = <<>>
    /\ nextId = 1
    /\ last = Call("constructor", <<>>, "ok")
    /\ profile \in {"errors", "stats"}
    /\ discussions = <<>>
    /\ currentRoom = null
    /\ dstored = <<>>
    /\ nextUid = 1
    /\ IdleStore
    /\ background = Waiting(getDefaultAgenda, 1, Call("constructor", <<>>, "ok"),
                            "absent")
    /\ turn = 0

FirstCalls ==
    /\ turn = 0
    /\ \E c \in CallArgs : Apply(c.op, c.args)
    /\ turn' = 1
    /\ UNCHANGED <<dvars, svars, background>>

SecondCalls ==
    /\ turn = 2
    /\ Apply(background.last.op, background.last.args)
    /\ turn' = 3
    /\ UNCHANGED <<dvars, svars, background>>

ChangePlaces ==
    /\ turn \in {1, 3}
    /\ Exchange
    /\ turn' = (turn + 1) % 4

\* time passes for both sessions between two calls
NextSessions ==
    \/ FirstCalls
    \/ ChangePlaces
    \/ SecondCalls
    \/ (turn = 0 /\ Tick)

SpecSessions == InitSessions /\ [][NextSessions]_vars

\* Two tabs over one working Store: each constructed its manager while the
\* key was empty; turn is the tab that runs.
InitTabs ==
    /\ now = StartTime
    /\ agenda = getDefaultAgenda
    /\ stored = <<>>
    /\ nextId = 1
    /\ last = Call("constructor", <<>>, "ok")
    /\ profile = "tabs"
    /\ discussions = <<>>
    /\ currentRoom = null
    /\ dstored = <<>>
    /\ nextUid = 1
    /\ IdleStore
    /\ background = Waiting(getDefaultAgenda, 1, Call("constructor", <<>>, "ok"),
                            "works")
    /\ turn = 0

SwitchTab ==
    /\ Exchange
    /\ turn' = 1 - turn

\* the calls the tabs make: books added, started and finished
TabCalls ==
    /\ \E c \in CallArgs :
          /\ c.op \in {"addToReadingList", "startReading", "finishReading"}
          /\ Apply(c.op, c.args)
    /\ UNCHANGED <<dvars, svars, tvars>>

NextTabs ==
    \/ TabCalls
    \/ SwitchTab

SpecTabs == InitTabs /\ [][NextTabs]_vars

\* ------------------------------------------------- LocalStorageManager
\* src/scripts/utils/localStorage.js over the browser's localStorage.  A
\* stored text is its length in characters and the value JSON.parse gives
\* for it (<<>> when the text is not JSON); the storage refuses a write
\* that would bring the characters it holds above its quota.
QuotaChars == 6     \* characters the browser's storage holds at most

\* what the browser's storage does: it works, one of its methods throws,
\* or there is no localStorage at all (every access throws)
Browsers == {"works", "throwsOnRead", "throwsOnWrite", "throwsOnDelete", "absent"}

\* values handed to setItem; JSON.stringify throws on the cyclic one
Short  == [chars |-> 2, cyclic |-> FALSE]
Large  == [chars |-> 5, cyclic |-> FALSE]
Cyclic == [chars |-> 3, cyclic |-> TRUE]
DataArgs == {Short, Large, Cyclic}
KeyArgs  == {AGENDA, SEARCH_HISTORY}

\* the default handed to getItem
Default == [chars |-> 0, cyclic |-> FALSE]

JSONstringify(data) == [chars |-> data.chars, json |-> <<data>>]

\* the text "test" the probe writes, and a text another program left
TestText == [chars |-> 1, json |-> <<>>]
Corrupt  == [chars |-> 1, json |-> <<>>]

RECURSIVE CharsFrom(_, _)
CharsFrom(items, keys) ==
    IF keys = {} THEN 0
    ELSE LET key == CHOOSE k \in keys : TRUE
         IN  (IF items[key] = <<>> THEN 0 ELSE items[key][1].chars)
             + CharsFrom(items, keys \ {key})

\* the characters the storage holds
Used(items) == CharsFrom(items, BrowserKeys)

\* A call in progress: the storage's items, the accesses made so far, the
\* exception in flight ("" for none) and the value returned.
Start == [items |-> localStorage, calls |-> <<>>, error |-> "", value |-> <<>>]
Return(st, value) == [st EXCEPT !.error = "", !.value = value]

\* localStorage.setItem(key, text)
BrowserSetItem(st, key, text) ==
    LET error ==
            IF browser = "absent" THEN "ReferenceError"
            ELSE IF browser = "throwsOnWrite" THEN "SecurityError"
            ELSE IF Used([st.items EXCEPT ![key] = <<text>>]) > QuotaChars
                 THEN "QuotaExceededError"
            ELSE ""
    IN  [items |-> IF error = "" THEN [st.items EXCEPT ![key] = <<text>>]
                   ELSE st.items,
         calls |-> Append(st.calls, <<"setItem", key>>),
         error |-> error, value |-> <<>>]

\* localStorage.getItem(key): <<>> for null
BrowserGetItem(st, key) ==
    LET error ==
            IF browser = "absent" THEN "ReferenceError"
            ELSE IF browser = "throwsOnRead" THEN "SecurityError"
            ELSE ""
    IN  [items |-> st.items,
         calls |-> Append(st.calls, <<"getItem", key>>),
         error |-> error,
         value |-> IF error = "" THEN st.items[key] ELSE <<>>]

\* localStorage.removeItem(key)
BrowserRemoveItem(st, key) ==
    LET error ==
            IF browser = "absent" THEN "ReferenceError"
            ELSE IF browser = "throwsOnDelete" THEN "SecurityError"
            ELSE ""
    IN  [items |-> IF error = "" THEN [st.items EXCEPT ![key] = <<>>]
                   ELSE st.items,
         calls |-> Append(st.calls, <<"removeItem", key>>),
         error |-> error, value |-> <<>>]

\* lines 101-110
isLocalStorageAvailable(st) ==
    LET written == BrowserSetItem(st, test, TestText)
        removed == BrowserRemoveItem(written, test)
    IN  IF written.error # "" THEN Return(written, FALSE)
        ELSE IF removed.error # "" THEN Return(removed, FALSE)
        ELSE Return(removed, TRUE)

\* lines 67-79
removeItem(st, key) ==
    LET available == isLocalStorageAvailable(st)
        removed == BrowserRemoveItem(available, key)
    IN  IF ~available.value THEN Return(available, FALSE)
        ELSE IF removed.error # "" THEN Return(removed, FALSE)
        ELSE Return(removed, TRUE)

\* lines 130-136
clearOldData(st) == removeItem(st, SEARCH_HISTORY)

\* the handler without its call of clearOldData
handleStorageErrorKeepsAll(st, error, key) == st

\* lines 117-125
handleStorageError(st, error, key) ==
    IF error = "QuotaExceededError" THEN clearOldData(st) ELSE st

\* lines 21-36
setItem(st, key, data) ==
    LET available == isLocalStorageAvailable(st)
        written == BrowserSetItem(available, key, JSONstringify(data))
    IN  IF ~available.value THEN Return(available, FALSE)
        ELSE IF data.cyclic
             THEN Return(handleStorageError(available, "TypeError", key), FALSE)
        ELSE IF written.error = "" THEN Return(written, TRUE)
        ELSE Return(handleStorageError(written, written.error, key), FALSE)

\* lines 44-60
getItem(st, key, defaultValue) ==
    LET available == isLocalStorageAvailable(st)
        item == BrowserGetItem(available, key)
    IN  IF ~available.value THEN Return(available, defaultValue)
        ELSE IF item.error # "" THEN Return(item, defaultValue)
        ELSE IF item.value = <<>> THEN Return(item, defaultValue)
        ELSE IF item.value[1].json = <<>> THEN Return(item, defaultValue)
        ELSE Return(item, item.value[1].json[1])

\* lines 146-156: the keys in the order of storageKeys, from the i-th on;
\* an exception of localStorage.getItem leaves the loop and the method
RECURSIVE UsageFrom(_, _, _, _)
UsageFrom(st, i, usage, totalSize) ==
    IF i > Len(storageKeys)
    THEN Return(st, [totalSize |-> totalSize, usage |-> usage])
    ELSE LET item == BrowserGetItem(st, storageKeys[i])
         IN  IF item.error # "" THEN item
             ELSE IF item.value # <<>>
                  THEN UsageFrom(item, i + 1,
                                 usage \cup {<<storageKeys[i], item.value[1].chars>>},
                                 totalSize + item.value[1].chars)
             ELSE UsageFrom(item, i + 1, usage, totalSize)

\* lines 142-163
getStorageUsage(st) == UsageFrom(st, 1, {}, 0)

\* A call of the LocalStorageManager: what it leaves in the storage, the
\* accesses it made, and whether it threw or what it returned.
StoreCall(op, args, result) ==
    /\ localStorage' = result.items
    /\ browserCalls' = result.calls
    /\ last' = Call(op, args, [threw |-> result.error # "", value |-> result.value])
    /\ UNCHANGED <<agenda, stored, now, nextId, profile, browser>>
    /\ UNCHANGED <<dvars, tvars>>

SetItem ==
    \E key \in KeyArgs, data \in DataArgs :
        StoreCall("setItem", <<key, data>>, setItem(Start, key, data))
GetItem ==
    \E key \in KeyArgs :
        StoreCall("getItem", <<key, Default>>, getItem(Start, key, Default))
RemoveItem ==
    \E key \in KeyArgs :
        StoreCall("removeItem", <<key>>, removeItem(Start, key))
IsLocalStorageAvailable ==
    StoreCall("isLocalStorageAvailable", <<>>, isLocalStorageAvailable(Start))
GetStorageUsage ==
    StoreCall("getStorageUsage", <<>>, getStorageUsage(Start))

\* between two calls the browser's storage starts or stops failing
BrowserChanges ==
    /\ \E b \in Browsers \ {browser} : browser' = b
    /\ UNCHANGED <<agenda, stored, now, nextId, last, profile>>
    /\ UNCHANGED <<localStorage, browserCalls>>
    /\ UNCHANGED <<dvars, tvars>>

\* the storage as the manager finds it: empty, or with a text under the
\* agenda's key that is not JSON
InitStore ==
    /\ now = StartTime
    /\ agenda = getDefaultAgenda
    /\ stored = <<>>
    /\ nextId = 1
    /\ last = Call("constructor", <<>>, "ok")
    /\ profile = "store"
    /\ discussions = <<>>
    /\ currentRoom = null
    /\ dstored = <<>>
    /\ nextUid = 1
    /\ localStorage \in {EmptyStorage, [EmptyStorage EXCEPT ![AGENDA] = <<Corrupt>>]}
    /\ browser \in Browsers
    /\ browserCalls = <<>>
    /\ OneManager

NextStore ==
    \/ SetItem
    \/ GetItem
    \/ RemoveItem
    \/ IsLocalStorageAvailable
    \/ GetStorageUsage
    \/ BrowserChanges

SpecStore == InitStore /\ [][NextStore]_vars

\* ------------------------------------------------ RecommendationEngine
\* The two RecommendationEngine classes of the repository:
\* src/scripts/modules/recommendationEngine.js (lines 4-371) and
\* src/unnamed/part_000.  A relevanceScore is counted in tenths.  The
\* engine reads its agendaManager through exportData(), a method the
\* AgendaManager of recommendationUI.js does not have: the collaborator
\* handed to the constructor has the method or not.
ModuleEngine  == "recommendationEngine.js"
UnnamedEngine == "part_000"
Engines == {ModuleEngine, UnnamedEngine}

\* slice(0, 12) and slice(0, 8)
RecommendationCap(engine) == IF engine = ModuleEngine THEN 12 ELSE 8

\* what one request to a catalogue gave: it failed (network error or a
\* response that is not ok), or the ids of the volumes it returned
Failed == [ok |-> FALSE, ids |-> <<>>]
Found(ids) == [ok |-> TRUE, ids |-> ids]

\* the answers drawn for a request whose own volumes are named by a
\* letter: none, a volume every request can return, its own volumes
Answers(letter, count) ==
    {Failed, Found(<<>>), Found(<<"shared">>),
     Found(<<letter \o "1", "shared">>),
     Found([i \in 1..count |-> letter \o ToString(i)])}

Candidates(answer, score) ==
    IF answer.ok
    THEN [i \in 1..Len(answer.ids) |-> [id |-> answer.ids[i], relevanceScore |-> score]]
    ELSE <<>>

\* the requests for the first two favourite genres, each in its own try
getGenreBasedRecommendations(engine, genre1, genre2) ==
    Candidates(genre1, 8) \o Candidates(genre2, 8)
getPopularBooks(engine, popular) ==
    Candidates(popular, IF engine = ModuleEngine THEN 6 ELSE 7)
getAwardWinners(engine, award) ==
    Candidates(award, IF engine = ModuleEngine THEN 7 ELSE 9)

getFallbackRecommendations(engine) ==
    IF engine = ModuleEngine
    THEN <<[id |-> "fallback-1", relevanceScore |-> 5],
           [id |-> "fallback-2", relevanceScore |-> 5],
           [id |-> "fallback-3", relevanceScore |-> 5],
           [id |-> "fallback-4", relevanceScore |-> 5]>>
    ELSE <<[id |-> "fallback-1", relevanceScore |-> 9],
           [id |-> "fallback-2", relevanceScore |-> 9],
           [id |-> "fallback-3", relevanceScore |-> 8],
           [id |-> "fallback-4", relevanceScore |-> 8]>>

\* the strategies array, the fulfilled values one after the other
Strategies(engine, fetches) ==
    IF engine = ModuleEngine
    THEN getGenreBasedRecommendations(engine, fetches.genre1, fetches.genre2)
         \o getPopularBooks(engine, fetches.popular)
         \o getAwardWinners(engine, fetches.award)
    ELSE getPopularBooks(engine, fetches.popular)
         \o getGenreBasedRecommendations(engine, fetches.genre1, fetches.genre2)
         \o getAwardWinners(engine, fetches.award)

\* if (!usedIds.has(book.id)) { push; add }
RECURSIVE Combine(_, _)
Combine(books, usedIds) ==
    IF books = <<>> THEN <<>>
    ELSE IF Head(books).id \in usedIds THEN Combine(Tail(books), usedIds)
    ELSE <<Head(books)>> \o Combine(Tail(books), usedIds \cup {Head(books).id})

\* Array.prototype.sort with (a, b) => b.relevanceScore - a.relevanceScore:
\* stable, by falling score
RECURSIVE SortByScore(_)
SortByScore(books) ==
    IF books = <<>> THEN <<>>
    ELSE LET top == CHOOSE i \in 1..Len(books) :
                       /\ \A j \in 1..Len(books) :
                             books[j].relevanceScore <= books[i].relevanceScore
                       /\ \A j \in 1..(i - 1) :
                             books[j].relevanceScore < books[i].relevanceScore
         IN  <<books[top]>> \o SortByScore(Splice(books, top))

\* Array.prototype.slice(0, n)
Slice(books, n) == SubSeq(books, 1, IF Len(books) < n THEN Len(books) ELSE n)

\* recommendationEngine.js lines 115-144
fetchRecommendations(fetches) ==
    Slice(SortByScore(Combine(Strategies(ModuleEngine, fetches), {})),
          RecommendationCap(ModuleEngine))

\* generateRecommendations of recommendationEngine.js (lines 26-40) and of
\* part_000 (lines 13-59): analyzeUserPreferences calls
\* this.agendaManager.exportData(); without the method the TypeError is
\* caught and the fallback list returned
generateRecommendations(engine, hasExportData, fetches) ==
    IF ~hasExportData THEN getFallbackRecommendations(engine)
    ELSE IF engine = ModuleEngine THEN fetchRecommendations(fetches)
    ELSE LET allRecommendations == Combine(Strategies(UnnamedEngine, fetches), {})
         IN  Slice(IF allRecommendations = <<>>
                   THEN getFallbackRecommendations(engine)
                   ELSE allRecommendations,
                   RecommendationCap(UnnamedEngine))

GenerateRecommendations ==
    /\ \E engine \in Engines, hasExportData \in BOOLEAN,
          genre1 \in Answers("g", 4), genre2 \in Answers("h", 4),
          popular \in Answers("p", 6), award \in Answers("a", 4) :
          LET fetches == [genre1 |-> genre1, genre2 |-> genre2,
                          popular |-> popular, award |-> award]
          IN  last' = Call("generateRecommendations",
                           <<engine, hasExportData, fetches>>,
                           [threw |-> FALSE,
                            value |-> generateRecommendations(
                                          engine, hasExportData, fetches)])
    /\ UNCHANGED <<agenda, stored, now, nextId, profile>>
    /\ UNCHANGED <<dvars, svars, tvars>>

InitRecommendations ==
    /\ now = StartTime
    /\ agenda = getDefaultAgenda
    /\ stored = <<>>
    /\ nextId = 1
    /\ last = Call("constructor", <<>>, "ok")
    /\ profile = "recommendations"
    /\ discussions = <<>>
    /\ currentRoom = null
    /\ dstored = <<>>
    /\ nextUid = 1
    /\ IdleStore
    /\ OneManager

NextRecommendations == GenerateRecommendations

SpecRecommendations == InitRecommendations /\ [][NextRecommendations]_vars

\* --------------------------------------------------------------- claims
AllItems == agenda.toReadList \o agenda.currentlyReading \o agenda.finishedBooks

\* A step that is a call of the manager (the clock does not move in a call).
IsCall == now' = now

Returned(op, ret) == last.op = op /\ last.ret = ret
Returns(op, ret) == IsCall /\ last'.op = op /\ last'.ret = ret

\* s without its i-th element
Without(s, i) == [k \in 1..(Len(s) - 1) |-> IF k < i THEN s[k] ELSE s[k + 1]]

\* the position of the item with this id in a list that holds it
PositionOf(list, id) == CHOOSE i \in 1..Len(list) : list[i].id = id

\* the lists (1 toReadList, 2 currentlyReading, 3 finishedBooks) holding id
ListsOf(a, id) ==
    {k \in 1..3 : id \in IdsOf(CASE k = 1 -> a.toReadList
                                 [] k = 2 -> a.currentlyReading
                                 [] k = 3 -> a.finishedBooks)}

\* C1: in every reachable state each item id appears in at most one of
\* toReadList, currentlyReading and finishedBooks, and once in that list.
C1_ListExclusivity ==
    \A i, j \in 1..Len(AllItems) : AllItems[i].id = AllItems[j].id => i = j

\* a book that was finished and added again sits in two lists, as two items
C1_Witness ==
    \E i \in 1..Len(agenda.toReadList), j \in 1..Len(agenda.finishedBooks) :
        agenda.toReadList[i].bookId = agenda.finishedBooks[j].bookId

\* C2: in every step an item stays in its list or moves one list forward
\* (toReadList -> currentlyReading -> finishedBooks); it never moves back,
\* never skips currentlyReading and never leaves finishedBooks.
C2_ForwardOnly ==
    [][\A id \in 1..MaxItems :
          LET from == ListsOf(agenda, id)
              to   == ListsOf(agenda', id)
          IN  from # {} =>
                  \/ to = from
                  \/ \E k \in 1..2 : from = {k} /\ to = {k + 1}]_vars

C2_Witness ==
    /\ Returned("finishReading", "true")
    /\ last.args[1] \in IdsOf(agenda.finishedBooks)
    /\ agenda.toReadList # <<>>

\* The two moves, as the claim states them; keptOnFinish is the set of
\* fields the finished book must keep from the item it was.
MoveEffect(finishKeeps(_)) ==
    /\ Returns("startReading", "true") =>
          LET id  == last'.args[1]
              i   == PositionOf(agenda.toReadList, id)
              old == agenda.toReadList[i]
              n   == Len(agenda.currentlyReading)
              new == agenda'.currentlyReading[n + 1]
          IN  /\ id \in IdsOf(agenda.toReadList)
              /\ agenda'.toReadList = Without(agenda.toReadList, i)
              /\ Len(agenda'.currentlyReading) = n + 1
              /\ SubSeq(agenda'.currentlyReading, 1, n) = agenda.currentlyReading
              /\ agenda'.finishedBooks = agenda.finishedBooks
              /\ \A f \in DOMAIN old : new[f] = old[f]
              /\ new.currentPage = last'.args[2]
              /\ new.readingSessions = <<>>
    /\ Returns("finishReading", "true") =>
          LET id  == last'.args[1]
              i   == PositionOf(agenda.currentlyReading, id)
              old == agenda.currentlyReading[i]
              n   == Len(agenda.finishedBooks)
              new == agenda'.finishedBooks[n + 1]
          IN  /\ id \in IdsOf(agenda.currentlyReading)
              /\ agenda'.currentlyReading = Without(agenda.currentlyReading, i)
              /\ Len(agenda'.finishedBooks) = n + 1
              /\ SubSeq(agenda'.finishedBooks, 1, n) = agenda.finishedBooks
              /\ agenda'.toReadList = agenda.toReadList
              /\ \A f \in finishKeeps(old) : new[f] = old[f]
              /\ new.isRead

\* C3 (as amended): a successful startReading removes the item from
\* toReadList and appends it to currentlyReading with every field kept,
\* currentPage the argument and an empty session log; a successful
\* finishReading removes it from currentlyReading and appends it to
\* finishedBooks with every field kept (id and reading sessions included)
\* except isRead, which becomes true.
C3_MoveKeepsFieldsButIsRead ==
    [][MoveEffect(LAMBDA old : DOMAIN old \ {"isRead"})]_vars

\* C3 as stated: both moves keep every field the item had.
C3_MoveKeepsEveryField ==
    [][MoveEffect(LAMBDA old : DOMAIN old)]_vars

\* a book with a recorded session has just been finished
C3_Witness ==
    /\ Returned("finishReading", "true")
    /\ agenda.finishedBooks[Len(agenda.finishedBooks)].id = last.args[1]
    /\ agenda.finishedBooks[Len(agenda.finishedBooks)].readingSessions # <<>>

\* C4: after an addReadingSession that returned true on an item whose
\* pageCount is known, the item's currentPage is at most its pageCount.
C4_SessionClamp ==
    Returned("addReadingSession", "true") =>
        \A i \in 1..Len(agenda.currentlyReading) :
            LET book == agenda.currentlyReading[i]
            IN  book.id = last.args[1] /\ book.pageCount # 0
                    => book.currentPage <= book.pageCount

\* ten pages were added to a four-page book
C4_Witness ==
    /\ Returned("addReadingSession", "true")
    /\ last.args[2] = 10
    /\ \E i \in 1..Len(agenda.currentlyReading) :
          LET book == agenda.currentlyReading[i]
          IN  /\ book.id = last.args[1]
              /\ book.pageCount = 4
              /\ book.currentPage = 4
              /\ book.readingSessions # <<>>

\* C5: in every reachable state every item of currentlyReading and of
\* finishedBooks with a known pageCount has currentPage <= pageCount.
C5_PageWithinCount ==
    \A i \in 1..Len(agenda.currentlyReading \o agenda.finishedBooks) :
        LET book == (agenda.currentlyReading \o agenda.finishedBooks)[i]
        IN  book.pageCount # 0 => book.currentPage <= book.pageCount

\* the unread toReadList items of a book
UnreadOf(list, bookId) ==
    {i \in 1..Len(list) : list[i].bookId = bookId /\ ~list[i].isRead}

\* C6: addToReadingList for a bookId that already has an unread item in
\* toReadList leaves exactly one such item, with the itemId it had and
\* with the notes attached to it.
C6_UpsertKeepsNotes ==
    [][Returns("addToReadingList", "item")
          /\ UnreadOf(agenda.toReadList, last'.args[1].id) # {}
       => LET bookId == last'.args[1].id
              i == CHOOSE k \in UnreadOf(agenda.toReadList, bookId) : TRUE
          IN  /\ Len(agenda'.toReadList) = Len(agenda.toReadList)
              /\ UnreadOf(agenda'.toReadList, bookId) = {i}
              /\ agenda'.toReadList[i].id = agenda.toReadList[i].id
              /\ agenda'.toReadList[i].notes = agenda.toReadList[i].notes]_vars

\* C7: addToReadingList with a book lacking id or title throws and leaves
\* the agenda (lists, goals, stats) and the stored value as they were; with
\* a valid book that has no unread item in toReadList it appends exactly one
\* item with the given priority and isRead = false and leaves
\* currentlyReading and finishedBooks unchanged.
C7_AddValidates ==
    [][IsCall /\ last'.op = "addToReadingList"
       => LET book == last'.args[1]
              priority == last'.args[2]
              n == Len(agenda.toReadList)
          IN  IF book.isNull \/ book.id = "" \/ book.title = ""
              THEN /\ last'.ret = "throw"
                   /\ agenda' = agenda
                   /\ stored' = stored
              ELSE UnreadOf(agenda.toReadList, book.id) = {}
                   => /\ last'.ret = "item"
                      /\ Len(agenda'.toReadList) = n + 1
                      /\ SubSeq(agenda'.toReadList, 1, n) = agenda.toReadList
                      /\ agenda'.toReadList[n + 1].bookId = book.id
                      /\ agenda'.toReadList[n + 1].priority = priority
                      /\ agenda'.toReadList[n + 1].isRead = FALSE
                      /\ agenda'.currentlyReading = agenda.currentlyReading
                      /\ agenda'.finishedBooks = agenda.finishedBooks]_vars

\* a book without title was refused while the agenda held items and a goal
C7_Witness ==
    /\ Returned("addToReadingList", "throw")
    /\ ~last.args[1].isNull
    /\ last.args[1].title = ""
    /\ agenda.toReadList # <<>>
    /\ agenda.readingGoals # <<>>

\* C8: startReading with an id that is not in toReadList, and
\* addReadingSession or finishReading with an id that is not in
\* currentlyReading, return false (no throw) and leave the agenda (lists,
\* goals, stats) and the stored value unchanged.
C8_NotFoundReturnsFalse ==
    [][IsCall
       /\ \/ /\ last'.op = "startReading"
             /\ last'.args[1] \notin IdsOf(agenda.toReadList)
          \/ /\ last'.op \in {"addReadingSession", "finishReading"}
             /\ last'.args[1] \notin IdsOf(agenda.currentlyReading)
       => /\ last'.ret = "false"
          /\ agenda' = agenda
          /\ stored' = stored]_vars

\* finishReading was refused for an item that is still in toReadList
C8_Witness ==
    /\ Returned("finishReading", "false")
    /\ last.args[1] \in IdsOf(agenda.toReadList)
    /\ agenda.currentlyReading # <<>>

\* C9: totalBooksRead is the length of finishedBooks in every reachable
\* state; a successful finishReading adds exactly 1 to it and no other
\* step changes it.
C9_TotalBooksRead ==
    /\ [](agenda.readingStats.totalBooksRead = Len(agenda.finishedBooks))
    /\ [][agenda'.readingStats.totalBooksRead =
             IF Returns("finishReading", "true")
             THEN agenda.readingStats.totalBooksRead + 1
             ELSE agenda.readingStats.totalBooksRead]_vars

\* two books are finished, one of them dated in an earlier year
C9_Witness ==
    /\ agenda.readingStats.totalBooksRead = 2
    /\ agenda.readingStats.booksReadThisYear = 1

\* the finished books that carry a rating
Rated(a) == SelectSeq(a.finishedBooks, LAMBDA b : b.rating # null)

RECURSIVE RatingSum(_)
RatingSum(books) ==
    IF books = <<>> THEN 0 ELSE books[1].rating + RatingSum(Tail(books))

\* C10: after every successful finishReading averageRating is the mean of
\* the ratings of the finished books that carry one, the book just finished
\* included (0, the initial value, while no finished book is rated).
C10_AverageRating ==
    Returned("finishReading", "true") =>
        LET avg == agenda.readingStats.averageRating
            rated == Rated(agenda)
        IN  IF rated = <<>> THEN avg.num = 0
            ELSE avg.num * Len(rated) = RatingSum(rated) * avg.den

\* a book was finished without a rating after a rated one
C10_Witness ==
    /\ Returned("finishReading", "true")
    /\ last.args[2] = null
    /\ Len(Rated(agenda)) = 1
    /\ Len(agenda.finishedBooks) = 2

\* the finished books whose finishDate lies within [goal.startDate, goal.endDate]
InPeriod(a, goal) ==
    {i \in 1..Len(a.finishedBooks) :
        /\ a.finishedBooks[i].finishDate >= goal.startDate
        /\ a.finishedBooks[i].finishDate <= goal.endDate}

\* the goals that a step takes from not completed to completed
Transitions == {g \in 1..Len(agenda.readingGoals) :
                   /\ ~agenda.readingGoals[g].isCompleted
                   /\ agenda'.readingGoals[g].isCompleted}

\* C11: running the goal-completion check a second time, with no book
\* finished in between, gives the goals and the goalsCompleted of running
\* it once; and every step adds to goalsCompleted exactly the number of
\* goals that the step takes from not completed to completed.
C11_GoalCheckIdempotent ==
    /\ [](LET once == checkGoalsCompletion(agenda)
              twice == checkGoalsCompletion(once)
          IN  /\ twice.readingGoals = once.readingGoals
              /\ twice.readingStats.goalsCompleted = once.readingStats.goalsCompleted)
    /\ [][/\ Len(agenda'.readingGoals) >= Len(agenda.readingGoals)
          /\ agenda'.readingStats.goalsCompleted =
                 agenda.readingStats.goalsCompleted + Cardinality(Transitions)]_vars

\* a second book was finished in the period of a goal completed by the first
C11_Witness ==
    /\ Returned("finishReading", "true")
    /\ Len(agenda.finishedBooks) = 2
    /\ agenda.readingStats.goalsCompleted = 1
    /\ \E g \in 1..Len(agenda.readingGoals) :
          /\ agenda.readingGoals[g].isCompleted
          /\ Cardinality(InPeriod(agenda, agenda.readingGoals[g])) = 2

\* what a successful finishReading leaves in the goals picked by recounted:
\* the derived fields agree with the finished books of the goal's period
GoalsDerived(recounted(_)) ==
    Returns("finishReading", "true") =>
        \A g \in 1..Len(agenda.readingGoals) :
            LET old == agenda.readingGoals[g]
                new == agenda'.readingGoals[g]
                n   == Cardinality(InPeriod(agenda', new))
            IN  IF recounted(old)
                THEN /\ new.booksCompleted = n
                     /\ new.progress.num * new.targetBooks = n * 100 * new.progress.den
                     /\ new.isCompleted = (n >= new.targetBooks)
                ELSE new = old

\* C12 (as amended): after every successful finishReading each goal that was
\* not completed before the call has booksCompleted equal to the number of
\* finished books whose finishDate lies within [startDate, endDate],
\* progress equal to booksCompleted/targetBooks as a percentage and
\* isCompleted exactly when booksCompleted >= targetBooks; a goal that was
\* completed before the call is left as it was.
C12_IncompleteGoalsRecounted ==
    [][GoalsDerived(LAMBDA old : ~old.isCompleted)]_vars

\* C12 as stated: the derived fields are recounted for every goal, the
\* goals completed before the call included.
C12_EveryGoalRecounted ==
    [][GoalsDerived(LAMBDA old : TRUE)]_vars

\* a book finished after the end of a goal's period, the goal still open
C12_Witness ==
    /\ Returned("finishReading", "true")
    /\ \E g \in 1..Len(agenda.readingGoals) :
          LET goal == agenda.readingGoals[g]
          IN  /\ ~goal.isCompleted
              /\ goal.booksCompleted = 1
              /\ Len(agenda.finishedBooks) = 2
              /\ agenda.finishedBooks[2].finishDate > goal.endDate

\* C13: after a finishReading that succeeded with the time of the call as
\* finish date, every goal with targetBooks = 1 and timeframe "month" that
\* was set earlier in the calendar month of the call is completed, with
\* progress 100.
C13_MonthGoalCompleted ==
    Returned("finishReading", "true") /\ last.args[3] = null =>
        \A g \in 1..Len(agenda.readingGoals) :
            LET goal == agenda.readingGoals[g]
            IN  /\ goal.targetBooks = 1
                /\ goal.timeframe = "month"
                /\ goal.startDate <= now
                /\ getFullYear(goal.startDate) = getFullYear(now)
                /\ getMonth(goal.startDate) = getMonth(now)
                => /\ goal.isCompleted
                   /\ goal.progress = Div(100, 1)

\* C15: importAgendaData with a payload that lacks the version or the
\* agenda field, or that is not parsable, returns false and leaves the
\* in-memory agenda as it was.
C15_ImportRejects ==
    [][IsCall /\ last'.op = "importAgendaData"
       => LET data == last'.args[1]
          IN  ~data.parses \/ data.isNull \/ data.version = "" \/ ~data.hasAgenda
              => /\ last'.ret = "false"
                 /\ agenda' = agenda]_vars

\* the rooms of d with this id (one at most: ids are fresh)
RoomsWithId(d, roomId) ==
    {AllRooms(d)[r] : r \in {k \in 1..Len(AllRooms(d)) : AllRooms(d)[k].id = roomId}}

C16_ReloadKeepsSets ==
    [][IsCall /\ last'.op = "constructor"
       => /\ Len(AllRooms(discussions')) = Len(AllRooms(discussions))
          /\ \A r \in 1..Len(AllRooms(discussions)) :
                LET old == AllRooms(discussions)[r]
                    new == AllRooms(discussions')[r]
                IN  /\ new.members = old.members
                    /\ Len(new.messages) = Len(old.messages)
                    /\ \A m \in 1..Len(old.messages) :
                          new.messages[m].likes = old.messages[m].likes
          /\ getStatistics(discussions') = getStatistics(discussions)]_vars

\* C17: likeMessage on a message that exists in the room returns true and
\* toggles userName in the message's like set: the user is in the set after
\* the call exactly when it was not before (so a second call restores the
\* set), every other user is in the set exactly when it was before, and
\* the like sets of the other messages stay as they were.
C17_LikeToggles ==
    [][IsCall /\ last'.op = "likeMessage"
       => LET roomId == last'.args[1]
              messageId == last'.args[2]
              userName == last'.args[3]
          IN  \A r \in 1..Len(AllRooms(discussions)) :
                  LET old == AllRooms(discussions)[r]
                      new == AllRooms(discussions')[r]
                  IN  /\ Len(new.messages) = Len(old.messages)
                      /\ \A m \in 1..Len(old.messages) :
                            LET was == old.messages[m].likes.elems
                                is  == new.messages[m].likes.elems
                            IN  IF old.id = roomId /\ old.messages[m].id = messageId
                                THEN /\ last'.ret = "true"
                                     /\ (userName \in is) = (userName \notin was)
                                     /\ is \ {userName} = was \ {userName}
                                ELSE is = was]_vars

\* u1 takes its like back from a message that u2 likes too: 0, 1, 2, 1
C17_Witness ==
    /\ Returned("likeMessage", "true")
    /\ last.args[3] = "u1"
    /\ \E room \in RoomsWithId(discussions, last.args[1]) :
          \E m \in 1..Len(room.messages) :
              /\ room.messages[m].id = last.args[2]
              /\ room.messages[m].likes.elems = {"u2"}

\* C18: joinRoom on a room id that does not exist or on a room that is not
\* active returns false, postMessage there throws, and in both cases
\* members, messages and lastActivity of every room stay as they were;
\* joinRoom on an active room by one of its members returns true and leaves
\* the room's members as they were.
C18_MissingOrInactive ==
    [][IsCall /\ last'.op \in {"joinRoom", "postMessage"}
       => LET target == RoomsWithId(discussions, last'.args[1])
              open == {room \in target : room.isActive}
          IN  IF open = {}
              THEN /\ last'.ret = IF last'.op = "joinRoom" THEN "false" ELSE "throw"
                   /\ Len(AllRooms(discussions')) = Len(AllRooms(discussions))
                   /\ \A r \in 1..Len(AllRooms(discussions)) :
                         LET old == AllRooms(discussions)[r]
                             new == AllRooms(discussions')[r]
                         IN  /\ new.members = old.members
                             /\ new.messages = old.messages
                             /\ new.lastActivity = old.lastActivity
              ELSE last'.op = "joinRoom"
                   => \A room \in open :
                          last'.args[2] \in room.members.elems
                          => /\ last'.ret = "true"
                             /\ \A new \in RoomsWithId(discussions', room.id) :
                                   new.members = room.members]_vars

\* a message was refused by a closed room that holds messages
C18_Witness ==
    /\ Returned("postMessage", "throw")
    /\ \E room \in RoomsWithId(discussions, last.args[1]) :
          /\ ~room.isActive
          /\ room.messages # <<>>
          /\ room.lastActivity # null

\* the limit DiscussionApp.sendMessage puts on the length of a message
MaxMessageLength == 500

\* C19: every message stored in a room is trimmed, not empty and at most
\* 500 characters long.
C19_MessagesValid ==
    \A m \in 1..Len(AllMessages(AllRooms(discussions))) :
        LET message == AllMessages(AllRooms(discussions))[m].message
        IN  /\ message # <<>>
            /\ Head(message).ch # " "
            /\ message[Len(message)].ch # " "
            /\ length(message) <= MaxMessageLength

\* C20: closeRoom on a room that exists returns true and leaves the room
\* with isActive false, closedBy the caller and closedAt the time of the
\* call; and a room that is not active is still there and not active after
\* every step.
C20_CloseIsFinal ==
    [][/\ IsCall /\ last'.op = "closeRoom"
          => \A room \in RoomsWithId(discussions, last'.args[1]) :
                 /\ last'.ret = "true"
                 /\ \E new \in RoomsWithId(discussions', room.id) :
                       /\ ~new.isActive
                       /\ new.closedBy = last'.args[2]
                       /\ new.closedAt = now
       /\ \A r \in 1..Len(AllRooms(discussions)) :
             LET room == AllRooms(discussions)[r]
             IN  ~room.isActive
                 => /\ RoomsWithId(discussions', room.id) # {}
                    /\ \A new \in RoomsWithId(discussions', room.id) :
                          ~new.isActive]_vars

\* a reply was posted in a room that had been closed before
C20_Witness ==
    /\ Returned("postReply", "reply")
    /\ \E room \in RoomsWithId(discussions, last.args[1]) :
          /\ ~room.isActive
          /\ room.closedAt < now

\* the books whose sessions count: those being read and those finished
SessionBooks(a) == a.currentlyReading \o a.finishedBooks

\* the calendar days on which some session of those books is dated
SessionDays(a) ==
    UNION {{toDateString(SessionBooks(a)[i].readingSessions[k].date) :
               k \in 1..Len(SessionBooks(a)[i].readingSessions)} :
           i \in 1..Len(SessionBooks(a))}

\* C25: a successful addReadingSession leaves in readingStats.readingStreak
\* the number of consecutive calendar days, counted backward from today up
\* to the first day without a session, that hold a session of a book being
\* read or finished: at least 1 right after the call; and the count is 0 in
\* every state where no session is dated today.
C25_StreakCountsDays ==
    /\ [](toDateString(now) \notin SessionDays(agenda)
            => calculateReadingStreak(agenda) = 0)
    /\ [][Returns("addReadingSession", "true")
            => LET streak == agenda'.readingStats.readingStreak
                   today == toDateString(now')
               IN  /\ streak >= 1
                   /\ \A back \in 0..(streak - 1) :
                         today - back \in SessionDays(agenda')
                   /\ today - streak \notin SessionDays(agenda')]_vars

\* a session recorded the day after another one: a streak of two days
C25_Witness ==
    /\ Returned("addReadingSession", "true")
    /\ agenda.readingStats.readingStreak = 2
    /\ toDateString(now) - 1 \in SessionDays(agenda)

\* the minutes of the sessions of a log dated at or after an instant
RECURSIVE MinutesOf(_, _)
MinutesOf(sessions, since) ==
    IF sessions = <<>> THEN 0
    ELSE (IF Head(sessions).date >= since THEN Head(sessions).minutesSpent ELSE 0)
         + MinutesOf(Tail(sessions), since)

\* the same over the logs of a list of books
RECURSIVE MinutesSince(_, _)
MinutesSince(books, since) ==
    IF books = <<>> THEN 0
    ELSE MinutesOf(Head(books).readingSessions, since)
         + MinutesSince(Tail(books), since)

\* C26: a successful addReadingSession or finishReading leaves in
\* readingStats.readingTimePerWeek the minutes of all the sessions dated
\* within the trailing seven days, over the books being read and the
\* finished books alike.
C26_WeekTimeOverAllItems ==
    [][Returns("addReadingSession", "true") \/ Returns("finishReading", "true")
          => agenda'.readingStats.readingTimePerWeek
                 = MinutesSince(SessionBooks(agenda'), now' - WeekTicks)]_vars

\* the book with this id among the books being read and the finished ones
SessionBook(a, id) ==
    SessionBooks(a)[CHOOSE i \in 1..Len(SessionBooks(a)) :
                        SessionBooks(a)[i].id = id]

\* C29: every session recorded by an addReadingSession call that returns
\* true has pagesRead > 0 and minutesSpent >= 0 and leaves the item's
\* currentPage >= 0; the call appends exactly that session, whose startPage
\* is the item's currentPage before the call and whose endPage is the
\* currentPage after it; and no step changes or removes a session an item
\* already holds.
C29_SessionsValidAppendOnly ==
    [][/\ Returns("addReadingSession", "true")
          => LET id == last'.args[1]
                 before == SessionBook(agenda, id)
                 after == SessionBook(agenda', id)
                 session == after.readingSessions[Len(after.readingSessions)]
             IN  /\ session.pagesRead > 0
                 /\ session.minutesSpent >= 0
                 /\ after.currentPage >= 0
                 /\ after.readingSessions = Append(before.readingSessions, session)
                 /\ session.startPage = before.currentPage
                 /\ session.endPage = after.currentPage
       /\ \A id \in IdsOf(SessionBooks(agenda)) :
             /\ id \in IdsOf(SessionBooks(agenda'))
             /\ LET old == SessionBook(agenda, id).readingSessions
                    new == SessionBook(agenda', id).readingSessions
                IN  Len(new) >= Len(old) /\ SubSeq(new, 1, Len(old)) = old]_vars

\* the messages of a room with their replies: what the room holds as content
ContentOf(room) ==
    [m \in 1..Len(room.messages) |->
        <<room.messages[m].id, room.messages[m].replies>>]

\* C30: once closeRoom has succeeded for a room no later operation adds a
\* message or a reply to it: the message list of a closed room and the
\* reply list of each of its messages are the same after every step.
C30_ClosedRoomFrozen ==
    [][\A r \in 1..Len(AllRooms(discussions)) :
          LET room == AllRooms(discussions)[r]
          IN  ~room.isActive
              => \A new \in RoomsWithId(discussions', room.id) :
                    ContentOf(new) = ContentOf(room)]_vars

StoreOperations ==
    {"setItem", "getItem", "removeItem", "isLocalStorageAvailable",
     "getStorageUsage"}

\* C21: whatever the browser's storage does, no operation of the Store
\* (set, get, remove, isAvailable, usageReport) throws to its caller: each
\* returns a value.
C21_StoreFailsSoft ==
    last.op \in StoreOperations => ~last.ret.threw

\* A step that is a call of the Store (the browser does not change in a call).
IsStoreCall == browser' = browser

\* how often an access occurs among the accesses of a call
Count(calls, access) == Cardinality({i \in 1..Len(calls) : calls[i] = access})

\* the write of the value of setItem(key, data) is made and the browser
\* refuses it for the quota: the storage works, the probe's text fits, the
\* value's text does not
HitsQuota(key, data) ==
    /\ browser = "works"
    /\ ~data.cyclic
    /\ Used([localStorage EXCEPT ![test] = <<TestText>>]) <= QuotaChars
    /\ Used([localStorage EXCEPT ![test] = <<>>, ![key] = <<JSONstringify(data)>>])
           > QuotaChars

\* C22: when the write of setItem(key, value) exceeds the quota the Store
\* removes the search history exactly once, does not write the value again,
\* leaves the value of every other key as it was and returns false.
C22_QuotaEvictsOnce ==
    [][\A key \in KeyArgs, data \in DataArgs :
          /\ HitsQuota(key, data)
          /\ last'.op = "setItem"
          /\ last'.args = <<key, data>>
          /\ IsStoreCall
          => /\ ~last'.ret.threw
             /\ last'.ret.value = FALSE
             /\ Count(browserCalls', <<"removeItem", SEARCH_HISTORY>>) = 1
             /\ Count(browserCalls', <<"setItem", key>>) = 1
             /\ localStorage'[SEARCH_HISTORY] = <<>>
             /\ \A other \in BrowserKeys \ {SEARCH_HISTORY, test} :
                   localStorage'[other] = localStorage[other]]_vars

\* the agenda's key holds a short value, a large one does not fit next to
\* the search history: the history is gone and the short value is kept
C22_Witness ==
    /\ last.op = "setItem"
    /\ last.args = <<AGENDA, Large>>
    /\ last.ret.value = FALSE
    /\ Count(browserCalls, <<"removeItem", SEARCH_HISTORY>>) = 1
    /\ localStorage[SEARCH_HISTORY] = <<>>
    /\ localStorage[AGENDA] = <<JSONstringify(Short)>>

\* the candidates the requests of the last call returned, in the order of
\* the engine's strategies
Offered == Strategies(last.args[1], last.args[3])

\* the candidate kept for an id: the first one offered with it
FirstOffered(id) ==
    Offered[CHOOSE i \in 1..Len(Offered) :
                /\ Offered[i].id = id
                /\ \A j \in 1..(i - 1) : Offered[j].id # id]

\* C23: whichever requests succeed and fail, generateRecommendations
\* returns the merge of the candidates of the requests that succeeded:
\* one candidate for each id, the first one offered, by falling
\* relevanceScore, cut to the engine's cap (the highest scores are kept).
C23_MergeDedupSortCap ==
    last.op = "generateRecommendations" /\ Offered # <<>>
        => LET result == last.ret.value
               ids == {Offered[i].id : i \in 1..Len(Offered)}
               cap == RecommendationCap(last.args[1])
           IN  /\ Len(result) = IF Cardinality(ids) < cap
                                THEN Cardinality(ids) ELSE cap
               /\ \A i \in 1..Len(result) :
                     /\ result[i].id \in ids
                     /\ result[i] = FirstOffered(result[i].id)
                     /\ \A j \in 1..(i - 1) :
                           /\ result[j].id # result[i].id
                           /\ result[j].relevanceScore >= result[i].relevanceScore
               /\ \A id \in ids \ {result[i].id : i \in 1..Len(result)} :
                     \A i \in 1..Len(result) :
                         FirstOffered(id).relevanceScore <= result[i].relevanceScore

\* C24: when every request fails or returns nothing generateRecommendations
\* returns the curated fallback list, which is not empty; and it never
\* throws.
C24_FallbackOnTotalFailure ==
    last.op = "generateRecommendations"
        => /\ ~last.ret.threw
           /\ Offered = <<>>
                 => /\ last.ret.value = getFallbackRecommendations(last.args[1])
                    /\ last.ret.value # <<>>

\* C27: a session whose Store throws on every access gets from every call
\* the result the same call sequence gets over a working Store, starting
\* from the empty agenda, and holds the same lists, goals and stats in
\* memory; no call throws because persisting failed.  The sessions are
\* compared whenever both have made the same calls.
C27_UnavailableStoreSameSession ==
    turn \in {0, 3}
        => /\ last = background.last
           /\ agenda = background.agenda
           /\ nextId = background.nextId

\* the session without a Store has just finished a book, as the session
\* with a Store did, whose key holds the agenda
C27_Witness ==
    /\ turn = 3
    /\ browser = "absent"
    /\ Returned("finishReading", "true")
    /\ Len(agenda.finishedBooks) = 1
    /\ stored = <<background.agenda>>

\* the catalogue ids of the books of an agenda
BookIdsOf(a) ==
    {(a.toReadList \o a.currentlyReading \o a.finishedBooks)[i].bookId :
        i \in 1..Len(a.toReadList \o a.currentlyReading \o a.finishedBooks)}

\* C28: with two tabs over one key, the key holds after every call that
\* writes it the whole in-memory agenda of the tab that made the call, and
\* nothing else writes it: the last write wins, whatever the other tab had
\* persisted before.
C28_LastWriteWins ==
    /\ [](stored # <<>> => stored[1] \in {agenda, background.agenda})
    /\ [][/\ turn' # turn => stored' = stored
          /\ turn' = turn
                => /\ stored' # stored => stored' = <<agenda'>>
                   /\ agenda' # agenda => stored' = <<agenda'>>]_vars

\* a lost update: the waiting tab added a book and persisted it, the
\* running tab persisted afterwards, and the key does not hold that book
C28_Witness ==
    /\ stored = <<agenda>>
    /\ Returned("addToReadingList", "item")
    /\ background.last.op = "addToReadingList"
    /\ background.last.ret = "item"
    /\ BookIdsOf(background.agenda) # {}
    /\ BookIdsOf(background.agenda) \cap BookIdsOf(stored[1]) = {}
====
